---------------------------- MODULE Spec2Model ----------------------------
(***************************************************************************)
(* Model of pfhedge.stochastic.cir.generate_cir: simulation of the         *)
(* Cox-Ingersoll-Ross process by Andersen's QE-M scheme.                   *)
(*                                                                         *)
(* Tensor elements are binary floating-point numbers with IEEE-754         *)
(* semantics (signed zero, subnormals, infinities, NaN, round to nearest   *)
(* even).  The significand has MantBits bits and the exponent range is     *)
(* that of float32 / bfloat16; MantBits = 8 is torch.bfloat16.             *)
(***************************************************************************)
EXTENDS Integers, Sequences, FiniteSets, TLC

(***************************************************************************)
(* Bounds of the model.                                                    *)
(***************************************************************************)
\* Number of paths N of every call (n_paths).
NPaths == 2

\* Largest number of time steps T of a call (n_steps ranges over 1..MaxSteps).
MaxSteps == 3

\* Bits of the significand of the element type (dtype).
MantBits == 8

\* Largest binary exponent of a finite element: finite values are < 2^(MaxExp+1).
MaxExp == 127

\* Seeds of the random generator range over 0..MaxSeed.
MaxSeed == 1

(***************************************************************************)
(* Floating-point numbers.  A finite number is (-1)^s * m * 2^e with       *)
(* either 2^(MantBits-1) <= m < 2^MantBits and MinE <= e <= MaxE (normal)  *)
(* or m < 2^(MantBits-1) and e = MinE (zero and subnormals).               *)
(***************************************************************************)
MinE == 2 - MaxExp - MantBits
MaxE == MaxExp + 1 - MantBits

NaN == [k |-> "nan", s |-> 0, m |-> 0, e |-> 0]
Inf(s) == [k |-> "inf", s |-> s, m |-> 0, e |-> 0]
Zero(s) == [k |-> "fin", s |-> s, m |-> 0, e |-> MinE]

IsNaN(x) == x.k = "nan"
IsInf(x) == x.k = "inf"
IsFinite(x) == x.k = "fin"
IsZero(x) == x.k = "fin" /\ x.m = 0

Abs(i) == IF i < 0 THEN -i ELSE i
Xor(s, t) == IF s = t THEN 0 ELSE 1

RECURSIVE BitLen(_)
BitLen(x) == IF x = 0 THEN 0 ELSE 1 + BitLen(x \div 2)

\* The finite number (-1)^s * m * 2^e, m <= 2^MantBits already rounded;
\* overflow of the exponent range gives an infinity.
Pack(s, m, e) ==
    LET mm == IF m = 2^MantBits THEN m \div 2 ELSE m
        ee == IF m = 2^MantBits THEN e + 1 ELSE e
    IN  IF mm = 0 THEN Zero(s)
        ELSE IF ee > MaxE THEN Inf(s)
        ELSE [k |-> "fin", s |-> s, m |-> mm, e |-> ee]

\* (-1)^s * (M + f) * 2^E rounded to nearest, ties to even, where 0 <= f < 1
\* and f > 0 iff sticky.  Callers with sticky supply at least two guard bits.
RoundPack(s, M, E, sticky) ==
    IF M = 0 THEN Zero(s)
    ELSE LET L == BitLen(M)
             sh0 == L - MantBits
             sh == IF E + sh0 < MinE THEN MinE - E ELSE sh0
         IN  IF sh <= 0 THEN Pack(s, M * 2^(-sh), E + sh)
             ELSE IF sh > 31 THEN Zero(s)
             ELSE LET q == IF sh = 31 THEN 0 ELSE M \div 2^sh
                      r == IF sh = 31 THEN M ELSE M % 2^sh
                      half == 2^(sh - 1)
                      up == r > half \/ (r = half /\ (sticky \/ q % 2 = 1))
                  IN  Pack(s, IF up THEN q + 1 ELSE q, E + sh)

\* The integer i as an element.
FromInt(i) == RoundPack(IF i < 0 THEN 1 ELSE 0, Abs(i), 0, FALSE)

\* Long division: quotient bits of r/d (r < d) are appended to acc until acc
\* has MantBits + 2 bits or the division is exact.
RECURSIVE RatBits(_, _, _, _)
RatBits(acc, r, d, n) ==
    IF acc >= 2^(MantBits + 1) \/ r = 0 THEN <<acc, r, n>>
    ELSE IF 2 * r >= d THEN RatBits(2 * acc + 1, 2 * r - d, d, n + 1)
    ELSE RatBits(2 * acc, 2 * r, d, n + 1)

\* The decimal literal n/d (n >= 0, d > 0) as an element.
Rat(n, d) ==
    LET t == RatBits(n \div d, n % d, d, 0)
    IN  RoundPack(0, t[1], -t[3], t[2] # 0)

FNeg(x) == IF IsNaN(x) THEN NaN ELSE [x EXCEPT !.s = 1 - x.s]

FAdd(x, y) ==
    IF IsNaN(x) \/ IsNaN(y) THEN NaN
    ELSE IF IsInf(x) THEN (IF IsInf(y) /\ y.s # x.s THEN NaN ELSE x)
    ELSE IF IsInf(y) THEN y
    ELSE IF x.m = 0 /\ y.m = 0 THEN Zero(IF x.s = 1 /\ y.s = 1 THEN 1 ELSE 0)
    ELSE IF x.m = 0 THEN y
    ELSE IF y.m = 0 THEN x
    ELSE LET hi == IF x.e >= y.e THEN x ELSE y
             lo == IF x.e >= y.e THEN y ELSE x
             d == hi.e - lo.e
         IN  IF d > MantBits + 3
             THEN RoundPack(hi.s, IF hi.s = lo.s THEN hi.m * 8 ELSE hi.m * 8 - 1,
                            hi.e - 3, TRUE)
             ELSE LET sum == (IF hi.s = 1 THEN -1 ELSE 1) * hi.m * 2^d
                             + (IF lo.s = 1 THEN -1 ELSE 1) * lo.m
                  IN  IF sum = 0 THEN Zero(0)
                      ELSE RoundPack(IF sum < 0 THEN 1 ELSE 0, Abs(sum), lo.e, FALSE)

FSub(x, y) == FAdd(x, FNeg(y))

FMul(x, y) ==
    IF IsNaN(x) \/ IsNaN(y) THEN NaN
    ELSE IF IsInf(x) \/ IsInf(y)
         THEN (IF IsZero(x) \/ IsZero(y) THEN NaN ELSE Inf(Xor(x.s, y.s)))
    ELSE IF x.m = 0 \/ y.m = 0 THEN Zero(Xor(x.s, y.s))
    ELSE RoundPack(Xor(x.s, y.s), x.m * y.m, x.e + y.e, FALSE)

FDiv(x, y) ==
    IF IsNaN(x) \/ IsNaN(y) THEN NaN
    ELSE IF IsInf(x) THEN (IF IsInf(y) THEN NaN ELSE Inf(Xor(x.s, y.s)))
    ELSE IF IsInf(y) THEN Zero(Xor(x.s, y.s))
    ELSE IF y.m = 0 THEN (IF x.m = 0 THEN NaN ELSE Inf(Xor(x.s, y.s)))
    ELSE IF x.m = 0 THEN Zero(Xor(x.s, y.s))
    ELSE LET n == 2 * MantBits + 2 - BitLen(x.m)
             num == x.m * 2^n
         IN  RoundPack(Xor(x.s, y.s), num \div y.m, x.e - n - y.e, num % y.m # 0)

\* Largest r with r * r <= M, found bit by bit from 2^bit downwards.
RECURSIVE ISqrt(_, _, _)
ISqrt(M, r, bit) ==
    IF bit < 0 THEN r
    ELSE IF (r + 2^bit) * (r + 2^bit) <= M THEN ISqrt(M, r + 2^bit, bit - 1)
    ELSE ISqrt(M, r, bit - 1)

FSqrt(x) ==
    IF IsNaN(x) THEN NaN
    ELSE IF IsZero(x) THEN x
    ELSE IF x.s = 1 THEN NaN
    ELSE IF IsInf(x) THEN x
    ELSE LET n0 == 2 * MantBits + 2 - BitLen(x.m)
             n == IF (x.e - n0) % 2 = 0 THEN n0 ELSE n0 + 1
             M == x.m * 2^n
             r == ISqrt(M, 0, MantBits + 2)
         IN  RoundPack(0, r, (x.e - n) \div 2, r * r # M)

\* Comparisons: every comparison with NaN is false, -0 = +0.
FLt(x, y) ==
    IF IsNaN(x) \/ IsNaN(y) THEN FALSE
    ELSE IF IsZero(x) /\ IsZero(y) THEN FALSE
    ELSE IF x.s # y.s THEN x.s = 1
    ELSE LET less == IF IsInf(x) THEN FALSE
                     ELSE IF IsInf(y) THEN TRUE
                     ELSE x.e < y.e \/ (x.e = y.e /\ x.m < y.m)
             more == IF IsInf(y) THEN FALSE
                     ELSE IF IsInf(x) THEN TRUE
                     ELSE y.e < x.e \/ (x.e = y.e /\ y.m < x.m)
         IN  IF x.s = 0 THEN less ELSE more

FGt(x, y) == FLt(y, x)
FEq(x, y) == ~IsNaN(x) /\ ~IsNaN(y) /\ ~FLt(x, y) /\ ~FLt(y, x)
FLe(x, y) == FLt(x, y) \/ FEq(x, y)
FGe(x, y) == FLe(y, x)

(***************************************************************************)
(* exp and log are computed in fixed point with ExpFrac and LogFrac        *)
(* fractional bits (range reduction by ln 2, then the Taylor series), and  *)
(* the result is rounded to the element type.                              *)
(***************************************************************************)
ExpFrac == MantBits + 5
LogFrac == MantBits + 9

\* round(ln 2 * 2^F), for F < 20; 726817 = round(ln 2 * 2^20).
Ln2(F) == (726817 + 2^(19 - F)) \div 2^(20 - F)

\* m * 2^e (e any integer) rounded to an integer, for m * 2^e < 2^30.
ToFixed(m, e) ==
    IF e >= 0 THEN m * 2^e
    ELSE IF -e > 30 THEN 0
    ELSE (m + 2^(-e - 1)) \div 2^(-e)

\* sum of r^j / j! in fixed point: term is the next term, j its index + 1.
RECURSIVE ExpSeries(_, _, _, _)
ExpSeries(sum, term, r, j) ==
    IF term = 0 THEN sum
    ELSE ExpSeries(sum + term,
                   (term * r + 2^(ExpFrac - 1) * j) \div (2^ExpFrac * j), r, j + 1)

FExp(x) ==
    IF IsNaN(x) THEN NaN
    ELSE IF IsInf(x) THEN (IF x.s = 1 THEN Zero(0) ELSE x)
    ELSE IF x.e + BitLen(x.m) > BitLen(MaxExp) + 1
         THEN (IF x.s = 1 THEN Zero(0) ELSE Inf(0))
    ELSE LET g == 19 - ExpFrac
             X == ToFixed(x.m, x.e + 19)
             ln2 == Ln2(19)
             n == IF x.s = 0 THEN X \div ln2 ELSE -((X + ln2 - 1) \div ln2)
             r == ((IF x.s = 0 THEN X ELSE -X) - n * ln2) \div 2^g
         IN  RoundPack(0, ExpSeries(0, 2^ExpFrac, r, 1), n - ExpFrac, FALSE)

\* sum of z^j / j over odd j in fixed point: pw = z^j, z2 = z^2.
RECURSIVE AtanhSeries(_, _, _, _)
AtanhSeries(sum, pw, z2, j) ==
    IF pw = 0 THEN sum
    ELSE AtanhSeries(sum + pw \div j, (pw * z2) \div 2^LogFrac, z2, j + 2)

FLog(x) ==
    IF IsNaN(x) THEN NaN
    ELSE IF IsZero(x) THEN Inf(1)
    ELSE IF x.s = 1 THEN NaN
    ELSE IF IsInf(x) THEN x
    ELSE LET L == BitLen(x.m)
             mm == x.m * 2^(MantBits - L)
             ee0 == x.e + L - 1
             big == mm * 1000 > 1414 * 2^(MantBits - 1)
             one == IF big THEN 2^MantBits ELSE 2^(MantBits - 1)
             ee == IF big THEN ee0 + 1 ELSE ee0
             z == (Abs(mm - one) * 2^LogFrac) \div (mm + one)
             at == AtanhSeries(0, z, (z * z) \div 2^LogFrac, 1)
             total == ee * Ln2(LogFrac) + (IF mm < one THEN -2 ELSE 2) * at
         IN  IF total = 0 THEN Zero(0)
             ELSE RoundPack(IF total < 0 THEN 1 ELSE 0, Abs(total), -LogFrac, FALSE)

(***************************************************************************)
(* Tensors.  A parameter tensor is a sequence of elements: length 1 is a   *)
(* scalar (or a one-element tensor), length NPaths a per-path tensor; any  *)
(* other length cannot be broadcast against the path dimension.            *)
(***************************************************************************)
Paths == 1..NPaths

Scalar(x) == <<x>>
PerPath(x, y) == [n \in Paths |-> IF n = 1 THEN x ELSE y]
Unbroadcastable(x) == [n \in 1..(NPaths + 1) |-> x]

\* Element n of tensor t broadcast to the path dimension.
At(t, n) == IF Len(t) = 1 THEN t[1] ELSE t[n]

Broadcastable(t) == Len(t) = 1 \/ Len(t) = NPaths

\* The constants of generate_cir, as elements.
PSI_CRIT == Rat(3, 2)
EPSILON == Rat(1, 100000000)

One == FromInt(1)
Two == FromInt(2)

(***************************************************************************)
(* The random sources.  The generator is a stream indexed by its state;    *)
(* drawing an array takes one number per element and advances the state.   *)
(***************************************************************************)
NormalValues == <<Rat(1, 2), FNeg(Rat(3, 2)), Zero(0), Two>>
UniformValues == <<Zero(0), Rat(9, 10), Rat(1, 2), Rat(255, 256), Rat(1, 4)>>

Normal(g) == NormalValues[(g % Len(NormalValues)) + 1]
Uniform(g) == UniformValues[(g % Len(UniformValues)) + 1]

VARIABLES
    n_steps,      \* argument n_steps
    init_state,   \* argument init_state[0]
    kappa,        \* argument kappa
    theta,        \* argument theta
    sigma,        \* argument sigma
    dt,           \* argument dt
    seed,         \* seed the generator is set to before each call
    gen,          \* state of the random generator
    output,       \* the grid: output[n][t], n in Paths, t in 0..n_steps-1
    randn,        \* standard-normal draws, same shape as output
    rand,         \* uniform draws, same shape as output
    pc,           \* position in generate_cir
    i_step,       \* loop variable
    n_randn,      \* elements drawn from the normal source in this call
    n_rand,       \* elements drawn from the uniform source in this call
    writes,       \* writes[t]: number of assignments to column t in this call
    v_reads,      \* columns of output read in this call
    z_reads,      \* columns of randn read in this call
    u_reads,      \* columns of rand read in this call
    call,         \* number of the current invocation (1 or 2)
    first         \* grid returned by the first invocation

args == <<n_steps, init_state, kappa, theta, sigma, dt, seed>>
ghost == <<n_randn, n_rand, writes, v_reads, z_reads, u_reads>>
vars == <<args, gen, output, randn, rand, pc, i_step, ghost, call, first>>

Cols == 0..(n_steps - 1)

(***************************************************************************)
(* One QE-M step, vectorised over the paths: lines 100-122.                *)
(***************************************************************************)
\* exp = (-kappa * dt).exp()
ExpTerm == [n \in Paths |-> FExp(FMul(FNeg(At(kappa, n)), At(dt, n)))]

\* m = theta + (v - theta) * exp
CondMean(v, exp) ==
    [n \in Paths |-> FAdd(At(theta, n), FMul(FSub(v[n], At(theta, n)), exp[n]))]

\* s2 = v * sigma**2 * exp * (1 - exp) / kappa
\*      + theta * sigma**2 * (1 - exp)**2 / (2 * kappa)
CondVar(v, exp) ==
    [n \in Paths |->
        LET sigma2 == FMul(At(sigma, n), At(sigma, n))
            om == FSub(One, exp[n])
        IN  FAdd(FDiv(FMul(FMul(FMul(v[n], sigma2), exp[n]), om), At(kappa, n)),
                 FDiv(FMul(FMul(At(theta, n), sigma2), FMul(om, om)),
                      FMul(Two, At(kappa, n))))]

\* psi = s2 / (m**2 + EPSILON)
Psi(s2, m) == [n \in Paths |-> FDiv(s2[n], FAdd(FMul(m[n], m[n]), EPSILON))]

\* b, a and next_0 of the branch psi <= PSI_CRIT
LowVariance(psi, m, z) ==
    [n \in Paths |->
        LET tp == FDiv(Two, psi[n])
            b == FSqrt(FAdd(FSub(tp, One),
                            FMul(FSqrt(tp), FSqrt(FSub(tp, One)))))
            a == FDiv(m[n], FAdd(One, FMul(b, b)))
            bz == FAdd(b, z[n])
        IN  FMul(a, FMul(bz, bz))]

\* p = (psi - 1) / (psi + 1)
SwitchProb(psi) == [n \in Paths |-> FDiv(FSub(psi[n], One), FAdd(psi[n], One))]

\* torch.where(cond, x, y)
Where(cond, x, y) == [n \in Paths |-> IF cond[n] THEN x[n] ELSE y[n]]

\* beta, pinv and next_1 of the branch psi > PSI_CRIT
HighVariance(psi, m, u) ==
    LET p == SwitchProb(psi)
        pinv == [n \in Paths |->
                    LET beta == FDiv(FSub(One, p[n]), FAdd(m[n], EPSILON))
                    IN  FDiv(FLog(FDiv(FSub(One, p[n]),
                                       FAdd(FSub(One, u[n]), EPSILON))),
                             beta)]
    IN  Where([n \in Paths |-> FGt(u[n], p[n])], pinv, [n \in Paths |-> Zero(0)])

\* Faulty variant: psi < PSI_CRIT.
LowRegimeStrict(psi) == [n \in Paths |-> FLt(psi[n], PSI_CRIT)]

\* Faulty variant: not (psi > PSI_CRIT), the selection written the other way round.
LowRegimeNotGreater(psi) == [n \in Paths |-> ~FGt(psi[n], PSI_CRIT)]

\* psi <= PSI_CRIT
LowRegime(psi) == [n \in Paths |-> FLe(psi[n], PSI_CRIT)]

\* The values assigned to output[:, i_step + 1].
NextColumn(v, z, u) ==
    LET exp == ExpTerm
        m == CondMean(v, exp)
        s2 == CondVar(v, exp)
        psi == Psi(s2, m)
    IN  Where(LowRegime(psi), LowVariance(psi, m, z), HighVariance(psi, m, u))

(***************************************************************************)
(* The call.                                                               *)
(***************************************************************************)
\* Faulty variant: range(n_steps - 2), one iteration too few.
LoopRangeShort == 0..(n_steps - 3)

\* Faulty variant: range(n_steps), one iteration too many.
LoopRangeInclusive == 0..(n_steps - 1)

\* for i_step in range(n_steps - 1)
LoopRange == 0..(n_steps - 2)

\* Faulty variant: v = output[:, i_step + 1], a column not yet assigned.
ReadColumnAhead(i) == i + 1

\* The column an iteration reads: v = output[:, i_step]
ReadColumn(i) == i

\* Faulty variant: output[:, i_step] = ..., the column just read.
TargetInPlace(i) == i

\* The column an iteration assigns: output[:, i_step + 1]
Target(i) == i + 1

\* Faulty variant: sigma is not an operand of the step's tensor arithmetic.
OperandsBroadcastNoSigma == \A t \in {kappa, theta, dt} : Broadcastable(t)

\* The operands kappa, theta, sigma, dt of lines 103-108 broadcast against v.
OperandsBroadcast == \A t \in {kappa, theta, sigma, dt} : Broadcastable(t)

StepsSet == 1..MaxSteps
Seeds == 0..MaxSeed

InitStates == {Scalar(Rat(4, 100)), Scalar(Zero(0)), PerPath(One, Zero(0))}
Kappas == {Scalar(One), Scalar(Zero(0)), Scalar(Rat(1, 100))}
Thetas == {Scalar(Rat(4, 100)), Scalar(Zero(0))}
Sigmas == {Scalar(Rat(2, 10)), Scalar(Zero(0)), Scalar(One)}
Dts == {Scalar(Rat(1, 250)), Scalar(One)}

\* Values torch.empty may leave in the grid.
Garbage == {NaN, FromInt(7)}

NoGrid == << >>

Fresh ==
    /\ pc = "entry"
    /\ gen = seed
    /\ output = NoGrid /\ randn = NoGrid /\ rand = NoGrid
    /\ i_step = 0
    /\ n_randn = 0 /\ n_rand = 0
    /\ writes = [t \in Cols |-> 0]
    /\ v_reads = {} /\ z_reads = {} /\ u_reads = {}

Init ==
    /\ n_steps \in StepsSet
    /\ seed \in Seeds
    /\ \/ /\ init_state \in InitStates
          /\ kappa \in Kappas
          /\ theta \in Thetas
          /\ sigma \in Sigmas
          /\ dt \in Dts
       \/ \E bad \in {"init_state", "kappa", "theta", "sigma", "dt"} :
            LET arg(name, x) ==
                    IF bad = name THEN Unbroadcastable(x) ELSE Scalar(x)
            IN  /\ init_state = arg("init_state", Rat(4, 100))
                /\ kappa = arg("kappa", One)
                /\ theta = arg("theta", Rat(4, 100))
                /\ sigma = arg("sigma", Rat(2, 10))
                /\ dt = arg("dt", Rat(1, 250))
    /\ call = 1
    /\ first = NoGrid
    /\ Fresh

\* line 89: output = torch.empty((n_paths, n_steps))
Alloc ==
    /\ pc = "entry"
    /\ \E g \in Garbage : output' = [n \in Paths |-> [t \in Cols |-> g]]
    /\ pc' = "allocated"
    /\ UNCHANGED <<args, gen, randn, rand, i_step, ghost, call, first>>

\* line 90: output[:, 0] = init_state[0]
WriteInit ==
    /\ pc = "allocated"
    /\ IF Broadcastable(init_state)
       THEN /\ output' = [n \in Paths |-> [output[n] EXCEPT ![0] = At(init_state, n)]]
            /\ writes' = [writes EXCEPT ![0] = @ + 1]
            /\ pc' = "col0"
       ELSE /\ pc' = "raised"
            /\ UNCHANGED <<output, writes>>
    /\ UNCHANGED <<args, gen, randn, rand, i_step, n_randn, n_rand,
                   v_reads, z_reads, u_reads, call, first>>

\* line 92: randn = torch.randn_like(output)
DrawRandn ==
    /\ pc = "col0"
    /\ randn' = [n \in Paths |-> [t \in Cols |-> Normal(gen + (n - 1) * n_steps + t)]]
    /\ gen' = gen + NPaths * n_steps
    /\ n_randn' = n_randn + NPaths * n_steps
    /\ pc' = "randn"
    /\ UNCHANGED <<args, output, rand, i_step, n_rand, writes,
                   v_reads, z_reads, u_reads, call, first>>

\* line 93: rand = torch.rand_like(output)
DrawRand ==
    /\ pc = "randn"
    /\ rand' = [n \in Paths |-> [t \in Cols |-> Uniform(gen + (n - 1) * n_steps + t)]]
    /\ gen' = gen + NPaths * n_steps
    /\ n_rand' = n_rand + NPaths * n_steps
    /\ pc' = "loop"
    /\ UNCHANGED <<args, output, randn, i_step, n_randn, writes,
                   v_reads, z_reads, u_reads, call, first>>

\* lines 99-122: one iteration of the loop over range(n_steps - 1)
Step ==
    /\ pc = "loop"
    /\ i_step \in LoopRange
    /\ v_reads' = v_reads \cup {ReadColumn(i_step)}
    /\ IF OperandsBroadcast
       THEN LET v == [n \in Paths |-> output[n][ReadColumn(i_step)]]
                z == [n \in Paths |-> randn[n][i_step]]
                u == [n \in Paths |-> rand[n][i_step]]
                next == NextColumn(v, z, u)
            IN  /\ output' = [n \in Paths |->
                                 [output[n] EXCEPT ![Target(i_step)] = next[n]]]
                /\ writes' = [writes EXCEPT ![Target(i_step)] = @ + 1]
                /\ z_reads' = z_reads \cup {i_step}
                /\ u_reads' = u_reads \cup {i_step}
                /\ i_step' = i_step + 1
                /\ pc' = "loop"
       ELSE /\ pc' = "raised"
            /\ UNCHANGED <<output, writes, z_reads, u_reads, i_step>>
    /\ UNCHANGED <<args, gen, randn, rand, n_randn, n_rand, call, first>>

\* line 124: return output
Return ==
    /\ pc = "loop"
    /\ i_step \notin LoopRange
    /\ pc' = "returned"
    /\ UNCHANGED <<args, gen, output, randn, rand, i_step, ghost, call, first>>

\* A second invocation with the same arguments, the generator set to the same seed.
Reinvoke ==
    /\ pc = "returned"
    /\ call = 1
    /\ call' = 2
    /\ first' = output
    /\ pc' = "entry"
    /\ gen' = seed
    /\ output' = NoGrid /\ randn' = NoGrid /\ rand' = NoGrid
    /\ i_step' = 0
    /\ n_randn' = 0 /\ n_rand' = 0
    /\ writes' = [t \in Cols |-> 0]
    /\ v_reads' = {} /\ z_reads' = {} /\ u_reads' = {}
    /\ UNCHANGED args

Next ==
    \/ Alloc
    \/ WriteInit
    \/ DrawRandn
    \/ DrawRand
    \/ Step
    \/ Return
    \/ Reinvoke

Spec == Init /\ [][Next]_vars

(***************************************************************************)
(* The transition law of one cell, as the specification states it: the     *)
(* value of path n at column t + 1 from its value at column t and the      *)
(* draws Z[n, t] and U[n, t].                                              *)
(***************************************************************************)
Written(t) == output # NoGrid /\ writes[t] >= 1

AllBroadcastable == \A t \in {init_state, kappa, theta, sigma, dt} : Broadcastable(t)

CellExp(n) == FExp(FNeg(FMul(At(kappa, n), At(dt, n))))

CellMean(n, t) ==
    FAdd(At(theta, n), FMul(FSub(output[n][t], At(theta, n)), CellExp(n)))

CellVar(n, t) ==
    LET e == CellExp(n)
        s == FMul(At(sigma, n), At(sigma, n))
    IN  FAdd(FDiv(FMul(FMul(FMul(output[n][t], s), e), FSub(One, e)), At(kappa, n)),
             FDiv(FMul(FMul(At(theta, n), s), FMul(FSub(One, e), FSub(One, e))),
                  FMul(Two, At(kappa, n))))

CellPsi(n, t) ==
    FDiv(CellVar(n, t), FAdd(FMul(CellMean(n, t), CellMean(n, t)), EPSILON))

\* a * (b + Z)^2
CellLow(n, t) ==
    LET q == FDiv(Two, CellPsi(n, t))
        b == FSqrt(FAdd(FSub(q, One), FMul(FSqrt(q), FSqrt(FSub(q, One)))))
        a == FDiv(CellMean(n, t), FAdd(One, FMul(b, b)))
    IN  FMul(a, FMul(FAdd(b, randn[n][t]), FAdd(b, randn[n][t])))

CellP(n, t) == FDiv(FSub(CellPsi(n, t), One), FAdd(CellPsi(n, t), One))

\* ln((1 - p) / (1 - U + eps)) / beta
CellPinv(n, t) ==
    LET p == CellP(n, t)
        beta == FDiv(FSub(One, p), FAdd(CellMean(n, t), EPSILON))
    IN  FDiv(FLog(FDiv(FSub(One, p), FAdd(FSub(One, rand[n][t]), EPSILON))), beta)

\* pinv when U > p, else exactly 0
CellHigh(n, t) == IF FGt(rand[n][t], CellP(n, t)) THEN CellPinv(n, t) ELSE Zero(0)

\* A step has been taken from column t by every path.
Stepped(t) == t \in LoopRange /\ Written(t) /\ Written(t + 1)

(***************************************************************************)
(* C1.  Whenever column 0 has been assigned, output[n, 0] is the initial   *)
(* state broadcast to path n; column 0 is assigned at most once in a call, *)
(* hence by no step iteration, and exactly once in a call that returns.    *)
(***************************************************************************)
C1_InitialColumn ==
    /\ writes[0] <= 1
    /\ pc = "returned" => writes[0] = 1
    /\ Written(0) =>
         \A n \in Paths :
            output[n][0] = (IF Len(init_state) = 1 THEN init_state[1]
                            ELSE init_state[n])

\* A returned grid of a per-path initial state after at least one step.
C1_Witness ==
    /\ pc = "returned"
    /\ i_step >= 1
    /\ Len(init_state) = NPaths
    /\ output[1][0] # output[2][0]

(***************************************************************************)
(* C2.  Regime consistency, cell by cell: the value a step wrote for path  *)
(* n at column t + 1 is the low-variance value when path n's psi is        *)
(* <= 1.5 and the high-variance value otherwise.                           *)
(***************************************************************************)
C2_RegimeConsistency ==
    \A t \in LoopRange : Stepped(t) =>
        \A n \in Paths :
            output[n][t + 1] = (IF FLe(CellPsi(n, t), PSI_CRIT)
                                THEN CellLow(n, t) ELSE CellHigh(n, t))

\* One step routed path 1 through one regime and path 2 through the other,
\* some high-variance cell took pinv, another the point mass 0, and some
\* cell was stepped from psi = 1.5 exactly.
C2_Witness ==
    /\ pc = "returned"
    /\ \E t \in LoopRange :
          /\ FLe(CellPsi(1, t), PSI_CRIT)
          /\ FGt(CellPsi(2, t), PSI_CRIT)
    /\ \E t \in LoopRange : \E n \in Paths :
          /\ FGt(CellPsi(n, t), PSI_CRIT)
          /\ FGt(rand[n][t], CellP(n, t))
          /\ FGt(output[n][t + 1], Zero(0))
    /\ \E t \in LoopRange : \E n \in Paths :
          /\ FGt(CellPsi(n, t), PSI_CRIT)
          /\ ~FGt(rand[n][t], CellP(n, t))
    /\ \E t \in LoopRange : \E n \in Paths : CellPsi(n, t) = PSI_CRIT

Positive(t) == \A j \in 1..Len(t) : FGt(t[j], Zero(0))
NonNegative(t) == \A j \in 1..Len(t) : FGe(t[j], Zero(0))
AllZero(t) == \A j \in 1..Len(t) : IsZero(t[j])

\* |m| <= 1e-4: the range in which EPSILON is not negligible against m^2.
NearZero(m) == FLe(FMul(m, m), EPSILON)

(***************************************************************************)
(* C3.  Non-negativity: with kappa, theta, sigma, dt > 0 and X0 >= 0 every *)
(* entry of the grid is >= 0, except cells stepped from a conditional mean *)
(* m that is approximately 0.                                              *)
(***************************************************************************)
C3_NonNegative ==
    (/\ AllBroadcastable
     /\ Positive(kappa) /\ Positive(theta) /\ Positive(sigma) /\ Positive(dt)
     /\ NonNegative(init_state))
    => \A t \in Cols : Written(t) =>
          \A n \in Paths :
             \/ FGe(output[n][t], Zero(0))
             \/ t >= 1 /\ NearZero(CellMean(n, t - 1))

(***************************************************************************)
(* C4.  With sigma = 0 and kappa, dt > 0 every step writes the conditional *)
(* mean m = theta + (v - theta) * exp(-kappa * dt) of the previous column, *)
(* whatever the draws; iterated over k steps this is the mean reversion    *)
(* theta + (X0 - theta) * exp(-kappa * k * dt).                            *)
(***************************************************************************)
C4_SigmaZeroMeanReversion ==
    (/\ AllBroadcastable
     /\ AllZero(sigma) /\ Positive(kappa) /\ Positive(dt))
    => \A t \in LoopRange : Stepped(t) =>
          \A n \in Paths :
             /\ FLe(CellPsi(n, t), PSI_CRIT)
             /\ output[n][t + 1] = CellMean(n, t)

(***************************************************************************)
(* C5, as amended.  With kappa = 0 and all arguments broadcastable the     *)
(* call raises no error and every step writes exactly 0.0: s2 and psi are  *)
(* NaN, both selections compare false and the zero of the high-variance    *)
(* branch is taken.                                                        *)
(***************************************************************************)
C5_KappaZeroWritesZeros ==
    (AllBroadcastable /\ AllZero(kappa))
    => /\ pc # "raised"
       /\ \A t \in LoopRange : Stepped(t) =>
             \A n \in Paths :
                /\ IsNaN(CellPsi(n, t))
                /\ output[n][t + 1] = Zero(0)

\* A returned grid of at least two columns for kappa = 0, started away from 0.
C5_Witness ==
    /\ pc = "returned"
    /\ n_steps >= 2
    /\ AllBroadcastable /\ AllZero(kappa)
    /\ Positive(init_state) /\ Positive(sigma) /\ Positive(theta)

\* C5 as claimed: with kappa = 0 the stepped entries of the returned grid
\* are non-finite.
C5_KappaZeroNonFinite ==
    (pc = "returned" /\ n_steps >= 2 /\ AllBroadcastable /\ AllZero(kappa))
    => \A t \in 1..(n_steps - 1) : \A n \in Paths : ~IsFinite(output[n][t])

(***************************************************************************)
(* C6, as amended.  An init_state that cannot be broadcast makes the call  *)
(* fail at the assignment of column 0, before any draw, for every n_steps. *)
(* A kappa, theta, sigma or dt that cannot be broadcast makes the call     *)
(* fail only in its first loop iteration: after both draw arrays have been *)
(* taken and before any step column is written when n_steps >= 2, and not  *)
(* at all when n_steps = 1.  The call fails for no other reason.           *)
(***************************************************************************)
BadShape(t) == Len(t) # 1 /\ Len(t) # NPaths

NoStepColumnWritten == \A t \in Cols : t >= 1 => writes[t] = 0

C6_ShapeFailure ==
    /\ pc = "raised" =>
          /\ \E t \in {init_state, kappa, theta, sigma, dt} : BadShape(t)
          /\ NoStepColumnWritten
          /\ i_step = 0
          /\ IF BadShape(init_state)
             THEN n_randn = 0 /\ n_rand = 0 /\ gen = seed
             ELSE /\ n_steps >= 2
                  /\ n_randn = NPaths * n_steps
                  /\ n_rand = NPaths * n_steps
    /\ BadShape(init_state) => pc \in {"entry", "allocated", "raised"}
    /\ (pc = "returned" /\ \E t \in {kappa, theta, sigma, dt} : BadShape(t))
          => n_steps = 1
    /\ (pc = "loop" /\ n_steps >= 2 /\ \E t \in {kappa, theta, sigma, dt} : BadShape(t))
          => i_step = 0

\* The call has failed on an unbroadcastable kappa after the draws.
C6_Witness ==
    /\ pc = "raised"
    /\ BadShape(kappa)
    /\ n_randn > 0 /\ n_rand > 0

\* C6 as claimed: any unbroadcastable argument makes the call fail, for
\* every n_steps, before any draw is taken and any step column written.
C6_FailsBeforeWork ==
    (\E t \in {init_state, kappa, theta, sigma, dt} : BadShape(t))
    => /\ pc # "returned"
       /\ n_randn = 0 /\ n_rand = 0
       /\ NoStepColumnWritten

(***************************************************************************)
(* C7, as amended.  For n_steps = 1 the returned grid is the broadcast     *)
(* initial state, the loop body has run zero times and no draw has been    *)
(* read; both sources have been drawn from once, NPaths numbers each.      *)
(***************************************************************************)
C7_SingleColumn ==
    (n_steps = 1 /\ pc = "returned")
    => /\ \A n \in Paths : output[n] = [t \in {0} |-> At(init_state, n)]
       /\ i_step = 0
       /\ v_reads = {} /\ z_reads = {} /\ u_reads = {}
       /\ n_randn = NPaths /\ n_rand = NPaths
       /\ gen = seed + 2 * NPaths

C7_Witness ==
    n_steps = 1 /\ pc = "returned" /\ Len(init_state) = NPaths

\* C7 as claimed: no randomness is consumed when n_steps = 1.
C7_NoRandomnessConsumed ==
    (n_steps = 1 /\ pc = "returned")
    => /\ \A n \in Paths : output[n] = [t \in {0} |-> At(init_state, n)]
       /\ i_step = 0
       /\ n_randn = 0 /\ n_rand = 0
       /\ gen = seed

(***************************************************************************)
(* C8.  At a step from a conditional mean m that is exactly 0 the value    *)
(* written is finite.                                                      *)
(***************************************************************************)
C8_ZeroMeanFinite ==
    AllBroadcastable =>
       \A t \in LoopRange : Stepped(t) =>
          \A n \in Paths :
             IsZero(CellMean(n, t)) => IsFinite(output[n][t + 1])

(***************************************************************************)
(* C9.  Determinism given the draws: the second invocation, with the same  *)
(* arguments and the same draw arrays but its own uninitialised grid,      *)
(* returns the grid the first invocation returned.                         *)
(***************************************************************************)
C9_Deterministic ==
    (pc = "returned" /\ call = 2) => output = first

C9_Witness ==
    /\ pc = "returned" /\ call = 2
    /\ n_steps = MaxSteps
    /\ \E n \in Paths : \E t \in Cols : t >= 1 /\ FGt(output[n][t], Zero(0))

(***************************************************************************)
(* C10.  Step ordering: the iterations run in the order 0, 1, ...,         *)
(* n_steps - 2 and the call returns after exactly n_steps - 1 of them;     *)
(* the iterations run so far have read exactly columns 0..i_step-1 of the  *)
(* grid and of both draw arrays, each column read was written before and   *)
(* no column is written twice; both draw arrays are generated once, before *)
(* the loop, and their last column is never read.  The loop counter only   *)
(* grows, is bounded by n_steps - 1, and the return is enabled as soon as  *)
(* the range is exhausted, so the call terminates.                         *)
(***************************************************************************)
C10_StepOrdering ==
    /\ i_step \in 0..(n_steps - 1)
    /\ v_reads \subseteq 0..i_step
    /\ pc \in {"loop", "returned"} => v_reads = 0..(i_step - 1)
    /\ z_reads = 0..(i_step - 1) /\ u_reads = z_reads
    /\ (n_steps - 1) \notin (v_reads \cup z_reads \cup u_reads)
    /\ \A t \in Cols : writes[t] <= 1
    /\ \A t \in v_reads : writes[t] = 1
    /\ \A t \in Cols : t >= 1 => (writes[t] = 1 <=> t <= i_step)
    /\ n_randn \in {0, NPaths * n_steps} /\ n_rand \in {0, NPaths * n_steps}
    /\ pc \in {"loop", "returned"} =>
          n_randn = NPaths * n_steps /\ n_rand = NPaths * n_steps
    /\ i_step > 0 => pc \in {"loop", "returned"}
    /\ pc = "returned" => i_step = n_steps - 1
    /\ (pc = "loop" /\ i_step \notin LoopRange) => ENABLED Return

C10_Witness ==
    /\ pc = "returned"
    /\ n_steps = MaxSteps
    /\ i_step = MaxSteps - 1
    /\ z_reads = 0..(MaxSteps - 2)

=============================================================================
